---- MODULE Spec2Model ----
(***************************************************************************)
(* Model of pensiones-simulador/JSONANTIGUO/report_missing.py: the         *)
(* data-completeness report over a country bundle, with the optional check *)
(* of an OECD population table (SDMX-CSV).                                 *)
(*                                                                         *)
(* Python strings are modelled as sequences of one-character strings, so   *)
(* that strip, upper, split, int(), float() and the code-point ordering of *)
(* str are computed, not assumed.  Python dicts are functions whose DOMAIN *)
(* is the set of keys; Python's None is the value None.                    *)
(***************************************************************************)
EXTENDS Integers, Sequences, FiniteSets, TLC

\* ------------------------------------------------------------------ bounds
\* Rows of the population table read in one run.
MaxRows == 4
\* Country records of the bundle analysed in one run.
MaxCountries == 2

\* --------------------------------------------------------- python strings
None == <<"None">>

\* The printable ASCII characters in code-point order, from 32 (space); the
\* double quote (34), the backslash (92) and the backtick (96) are held by name.
Ascii ==
    <<" ", "!", "dquote", "#", "$", "%", "&", "'", "(", ")", "*", "+", ",", "-", ".", "/",
      "0", "1", "2", "3", "4", "5", "6", "7", "8", "9", ":", ";", "<", "=", ">", "?",
      "@", "A", "B", "C", "D", "E", "F", "G", "H", "I", "J", "K", "L", "M", "N", "O",
      "P", "Q", "R", "S", "T", "U", "V", "W", "X", "Y", "Z", "[", "backslash", "]", "^", "_",
      "backtick", "a", "b", "c", "d", "e", "f", "g", "h", "i", "j", "k", "l", "m", "n", "o",
      "p", "q", "r", "s", "t", "u", "v", "w", "x", "y", "z", "{", "|", "}", "~">>

Chars == {Ascii[i] : i \in 1..Len(Ascii)} \cup {"\t"}

\* ord(c): the code point of a character.
OrdMap == [c \in Chars |-> IF c = "\t" THEN 9
                           ELSE 31 + (CHOOSE i \in 1..Len(Ascii) : Ascii[i] = c)]

Ord(c) == OrdMap[c]

\* str.isspace() on the characters of the model.
IsSpace(c) == c \in {" ", "\t"}

IsDigit(c) == Ord(c) >= 48 /\ Ord(c) <= 57

\* str.upper() of one character.
UpperChar(c) == IF Ord(c) >= 97 /\ Ord(c) <= 122 THEN Ascii[Ord(c) - 32 - 31] ELSE c

LowerChar(c) == IF Ord(c) >= 65 /\ Ord(c) <= 90 THEN Ascii[Ord(c) + 32 - 31] ELSE c

Upper(s) == [i \in 1..Len(s) |-> UpperChar(s[i])]

Lower(s) == [i \in 1..Len(s) |-> LowerChar(s[i])]

\* str.strip(): leading and trailing whitespace removed.
Strip(s) ==
    LET nonsp == {i \in 1..Len(s) : ~IsSpace(s[i])}
    IN  IF nonsp = {} THEN <<>>
        ELSE LET lo == CHOOSE i \in nonsp : \A j \in nonsp : i <= j
                 hi == CHOOSE i \in nonsp : \A j \in nonsp : j <= i
             IN  SubSeq(s, lo, hi)

\* a < b for Python str: lexicographic on code points.
StrLess(a, b) ==
    \E i \in 1..(Len(b)) :
        /\ \A j \in 1..(i - 1) : j <= Len(a) /\ a[j] = b[j]
        /\ \/ i = Len(a) + 1
           \/ i <= Len(a) /\ Ord(a[i]) < Ord(b[i])

\* min() in the place of max(): the least of the strings.
StrMin(S) == CHOOSE x \in S : \A y \in S : y = x \/ StrLess(x, y)

\* max() of a non-empty set of distinct strings.
StrMax(S) == CHOOSE x \in S : \A y \in S : y = x \/ StrLess(y, x)

\* sep.join(parts)
RECURSIVE Join(_, _)
Join(parts, sep) ==
    IF parts = <<>> THEN <<>>
    ELSE IF Len(parts) = 1 THEN parts[1]
    ELSE parts[1] \o sep \o Join(Tail(parts), sep)

\* s.split(sep): the pieces of s between the occurrences of the character sep.
RECURSIVE Split(_, _)
Split(s, sep) ==
    LET at == {i \in 1..Len(s) : s[i] = sep}
    IN  IF at = {} THEN <<s>>
        ELSE LET i == CHOOSE k \in at : \A j \in at : k <= j
             IN  <<SubSeq(s, 1, i - 1)>> \o Split(SubSeq(s, i + 1, Len(s)), sep)

\* s.split(sep, 1)[0]: the part of s before its first sep (all of s without one).
SplitFirst(s, sep) ==
    LET at == {i \in 1..Len(s) : s[i] = sep}
    IN  IF at = {} THEN s
        ELSE SubSeq(s, 1, (CHOOSE k \in at : \A j \in at : k <= j) - 1)

\* The value of a non-empty sequence of decimal digits.
RECURSIVE DigitsValue(_)
DigitsValue(ds) ==
    IF ds = <<>> THEN 0
    ELSE 10 * DigitsValue(SubSeq(ds, 1, Len(ds) - 1)) + (Ord(ds[Len(ds)]) - 48)

\* The digit groups int() and float() accept: digits, with single
\* underscores between digits only.
IsDigitRun(s) ==
    /\ Len(s) >= 1
    /\ IsDigit(s[1])
    /\ IsDigit(s[Len(s)])
    /\ \A i \in 1..Len(s) : IsDigit(s[i]) \/ s[i] = "_"
    /\ \A i \in 1..(Len(s) - 1) : ~(s[i] = "_" /\ s[i + 1] = "_")

DigitsOf(s) == SelectSeq(s, IsDigit)

\* ------------------------------------------------------------ dict helpers
EmptyDict == <<>>

\* d.get(k) or default
Get(d, k, default) == IF k \in DOMAIN d THEN d[k] ELSE default

\* d[k] = v
Put(d, k, v) == [x \in (DOMAIN d) \cup {k} |-> IF x = k THEN v ELSE d[x]]

\* ------------------------------------------------------- number parsing
\* The index of the first c in s, Len(s) + 1 without one.
FirstIndex(s, c) ==
    IF \E i \in 1..Len(s) : s[i] = c
    THEN CHOOSE i \in 1..Len(s) : s[i] = c /\ \A j \in 1..(i - 1) : s[j] # c
    ELSE Len(s) + 1

Count(s, c) == Cardinality({i \in 1..Len(s) : s[i] = c})

HasSign(t) == Len(t) >= 1 /\ t[1] \in {"+", "-"}

IsNegative(t) == Len(t) >= 1 /\ t[1] = "-"

Unsigned(t) == IF HasSign(t) THEN Tail(t) ELSE t

\* The value of an optionally signed digit group.
SignedValue(t) ==
    IF IsNegative(t) THEN 0 - DigitsValue(DigitsOf(Unsigned(t)))
    ELSE DigitsValue(DigitsOf(Unsigned(t)))

\* int(s) of a str: surrounding whitespace, an optional sign, then digits
\* (single underscores allowed between digits).  ok is FALSE where int()
\* raises; _safe_int then returns None.
_safe_int(s) ==
    IF IsDigitRun(Unsigned(Strip(s)))
    THEN [ok |-> TRUE, v |-> SignedValue(Strip(s))]
    ELSE [ok |-> FALSE, v |-> 0]

\* float("nan")
NaN == [kind |-> "nan", neg |-> FALSE, mant |-> 0, exp |-> 0]

\* A decimal mantissa: digits, digits., digits.digits or .digits
IsDecimal(m) ==
    /\ Count(m, ".") <= 1
    /\ FirstIndex(m, ".") = 1 \/ IsDigitRun(SubSeq(m, 1, FirstIndex(m, ".") - 1))
    /\ FirstIndex(m, ".") >= Len(m) \/ IsDigitRun(SubSeq(m, FirstIndex(m, ".") + 1, Len(m)))
    /\ \E i \in 1..Len(m) : IsDigit(m[i])

\* The digits of a decimal mantissa after its point.
FracDigits(m) == DigitsOf(SubSeq(m, FirstIndex(m, ".") + 1, Len(m)))

\* An unsigned lower-case float literal that is a number: a decimal mantissa
\* and an optional exponent.
IsNumber(b) ==
    /\ Count(b, "e") <= 1
    /\ IsDecimal(SubSeq(b, 1, FirstIndex(b, "e") - 1))
    /\ Count(b, "e") = 1 => IsDigitRun(Unsigned(SubSeq(b, FirstIndex(b, "e") + 1, Len(b))))

\* The number of an unsigned literal: mantissa digits and decimal exponent.
NumberOf(b, neg) ==
    [kind |-> "num", neg |-> neg,
     mant |-> DigitsValue(DigitsOf(SubSeq(b, 1, FirstIndex(b, "e") - 1))),
     exp |-> (IF Count(b, "e") = 1
              THEN SignedValue(SubSeq(b, FirstIndex(b, "e") + 1, Len(b)))
              ELSE 0)
             - Len(FracDigits(SubSeq(b, 1, FirstIndex(b, "e") - 1)))]

\* float() of a stripped, lower-cased literal.
FloatOf(t) ==
    IF Unsigned(t) = <<"n", "a", "n">>
    THEN [ok |-> TRUE, val |-> NaN]
    ELSE IF Unsigned(t) \in {<<"i", "n", "f">>, <<"i", "n", "f", "i", "n", "i", "t", "y">>}
    THEN [ok |-> TRUE,
          val |-> [kind |-> "inf", neg |-> IsNegative(t), mant |-> 0, exp |-> 0]]
    ELSE IF IsNumber(Unsigned(t))
    THEN [ok |-> TRUE, val |-> NumberOf(Unsigned(t), IsNegative(t))]
    ELSE [ok |-> FALSE, val |-> NaN]

\* float(s) of a str, as kind/sign/mantissa digits/decimal exponent; ok is
\* FALSE where float() raises ValueError.
ParseFloat(s) == FloatOf(Lower(Strip(s)))

\* math.isnan(v)
IsNaN(v) == v.kind = "nan"

\* ----------------------------------------------------------- the program
VARIABLES
    pc,               \* where main() is: "load_json", "load_csv", "reading",
                      \* "loop", "sort", "print", "done", or "exit" (SystemExit)
    exit_msg,         \* which SystemExit ended the run: "", "estructura" or "csv"
    args,             \* the parsed command line
    required_inputs,  \* main: the list of required keys of 'inputs'
    required_ages,    \* main: the list of required AGE codes
    by_iso3,          \* load_oecd_population_csv: iso3 -> year -> sex -> age -> value
    years_by_iso3,    \* load_oecd_population_csv: iso3 -> {year}
    sexes_by_iso3,    \* load_oecd_population_csv: iso3 -> {sex}
    header,           \* load_oecd_population_csv: r.fieldnames, once read
    row,              \* load_oecd_population_csv: <<row>> of the current iteration, if kept
    nrows,            \* rows read so far from the open table
    oecd_idx,         \* main: the index load_oecd_population_csv returned
    res,              \* the (ok, latest_year, issues) of the last check_oecd_csv_for_iso3
    total,            \* main: entries of 'countries' seen
    with_issues,      \* main: countries with something missing
    freq_declared,    \* main: Counter of declared missing fields
    freq_inputs,      \* main: Counter of missing inputs
    freq_csv,         \* main: Counter of the keys of the table's issues
    rows,             \* main: the rows of the report
    analyzed,         \* history: key, entry, check and tuple of every analysed record
    keys_seen,        \* the keys of 'countries' iterated so far
    printed           \* the [iso2] blocks printed, in order

vars == <<pc, exit_msg, args, required_inputs, required_ages, by_iso3, years_by_iso3,
          sexes_by_iso3, header, row, nrows, oecd_idx, res, total, with_issues,
          freq_declared, freq_inputs, freq_csv, rows, analyzed, keys_seen, printed>>

csv_vars == <<by_iso3, years_by_iso3, sexes_by_iso3, header, row, nrows, oecd_idx>>

loop_vars == <<total, with_issues, freq_declared, freq_inputs, freq_csv, rows,
               analyzed, keys_seen>>

\* ---------------------------------------------- load_oecd_population_csv
required_cols == {"REF_AREA", "SEX", "AGE", "TIME_PERIOD", "OBS_VALUE"}

\* (row.get(col) or "")
OrEmpty(cell) == IF cell = None THEN <<>> ELSE cell

\* Whether load_oecd_population_csv raises ValueError on this header
\* (fieldnames: the set of the header's column names; empty without a header).
header_fails(fieldnames) ==
    \/ fieldnames = {}
    \/ {c \in required_cols : c \notin fieldnames} # {}

\* The body of "for row in r" with a row dropped when its value does not parse.
load_row_dropping_unparseable(idx, r, required_ages_set) ==
    LET iso3 == Strip(OrEmpty(r.REF_AREA))
        sex == Strip(OrEmpty(r.SEX))
        age == Strip(OrEmpty(r.AGE))
        year == Strip(OrEmpty(r.TIME_PERIOD))
        parsed == ParseFloat(Strip(OrEmpty(r.OBS_VALUE)))
        b1 == Get(idx.by_iso3, iso3, EmptyDict)
        b2 == Get(b1, year, EmptyDict)
        b3 == Get(b2, sex, EmptyDict)
        seen == [idx EXCEPT
                   !.years_by_iso3 = Put(@, iso3, Get(@, iso3, {}) \cup {year}),
                   !.sexes_by_iso3 = Put(@, iso3, Get(@, iso3, {}) \cup {sex})]
    IN  IF iso3 = <<>> \/ year = <<>> \/ sex = <<>> \/ age = <<>>
        THEN idx
        ELSE IF age \notin required_ages_set \/ ~parsed.ok
        THEN seen
        ELSE [seen EXCEPT
                !.by_iso3 = Put(@, iso3, Put(b1, year, Put(b2, sex, Put(b3, age, parsed.val))))]

\* The body of "for row in r" with the period and the sex code recorded after
\* the test of the age band: only rows of required bands give periods.
load_row_years_of_required(idx, r, required_ages_set) ==
    LET iso3 == Strip(OrEmpty(r.REF_AREA))
        sex == Strip(OrEmpty(r.SEX))
        age == Strip(OrEmpty(r.AGE))
        year == Strip(OrEmpty(r.TIME_PERIOD))
        parsed == ParseFloat(Strip(OrEmpty(r.OBS_VALUE)))
        v == IF parsed.ok THEN parsed.val ELSE NaN
        b1 == Get(idx.by_iso3, iso3, EmptyDict)
        b2 == Get(b1, year, EmptyDict)
        b3 == Get(b2, sex, EmptyDict)
    IN  IF iso3 = <<>> \/ year = <<>> \/ sex = <<>> \/ age = <<>>
           \/ age \notin required_ages_set
        THEN idx
        ELSE [idx EXCEPT
                !.years_by_iso3 = Put(@, iso3, Get(@, iso3, {}) \cup {year}),
                !.sexes_by_iso3 = Put(@, iso3, Get(@, iso3, {}) \cup {sex}),
                !.by_iso3 = Put(@, iso3, Put(b1, year, Put(b2, sex, Put(b3, age, v))))]

\* The body of "for row in r": the three dicts after one row.
load_row(idx, r, required_ages_set) ==
    LET iso3 == Strip(OrEmpty(r.REF_AREA))
        sex == Strip(OrEmpty(r.SEX))
        age == Strip(OrEmpty(r.AGE))
        year == Strip(OrEmpty(r.TIME_PERIOD))
        val_s == Strip(OrEmpty(r.OBS_VALUE))
        parsed == ParseFloat(val_s)
        v == IF parsed.ok THEN parsed.val ELSE NaN
        b1 == Get(idx.by_iso3, iso3, EmptyDict)
        b2 == Get(b1, year, EmptyDict)
        b3 == Get(b2, sex, EmptyDict)
        seen == [idx EXCEPT
                   !.years_by_iso3 = Put(@, iso3, Get(@, iso3, {}) \cup {year}),
                   !.sexes_by_iso3 = Put(@, iso3, Get(@, iso3, {}) \cup {sex})]
    IN  IF iso3 = <<>> \/ year = <<>> \/ sex = <<>> \/ age = <<>>
        THEN idx
        ELSE IF age \notin required_ages_set
        THEN seen
        ELSE [seen EXCEPT
                !.by_iso3 = Put(@, iso3, Put(b1, year, Put(b2, sex, Put(b3, age, v))))]

\* ----------------------------------------------- check_oecd_csv_for_iso3
sin_filas_iso3 == <<"s", "i", "n", "_", "f", "i", "l", "a", "s", "_", "i", "s", "o", "3">>

no_iso3_mapping == <<"n", "o", "_", "i", "s", "o", "3", "_", "m", "a", "p", "p", "i", "n", "g">>

sex_T == <<"_", "T">>

sex_M == <<"_", "M">>

sex_F == <<"_", "F">>

\* "falta_sex_T", "falta_sex_M", "falta_sex_F": a sex code's tag is its letter.
falta_sex(sex_code) == <<"f", "a", "l", "t", "a", "_", "s", "e", "x", "_">> \o Tail(sex_code)

\* "faltan_edades_T:" + "|".join(missing), and so on
faltan_edades(sex_code, missing) ==
    <<"f", "a", "l", "t", "a", "n", "_", "e", "d", "a", "d", "e", "s", "_">> \o Tail(sex_code) \o <<":">> \o Join(missing, <<"|">>)

\* The latest year taken as the greatest string whatever the years are.
latest_year_by_str(years) == {StrMax(years)}

\* The year "Elegir último año" can select: by int value when every year is an
\* int (max() keeps the first of several years of the same value, in the
\* iteration order of a set of str, which no input fixes), else by str.
latest_year_choices(years) ==
    IF \A y \in years : _safe_int(y).ok
    THEN {y \in years : \A z \in years : _safe_int(z).v <= _safe_int(y).v}
    ELSE {StrMax(years)}

\* has_all_ages without the test for NaN: a band stored is a band covered.
has_all_ages_any_value(year_block, req, sex_code) ==
    LET ages_map == Get(year_block, sex_code, EmptyDict)
        Missing(a) == a \notin DOMAIN ages_map
        missing == SelectSeq(req, Missing)
    IN  [ok |-> missing = <<>>, missing |-> missing]

\* has_all_ages(sex_code) over year_block: (ok, missing)
has_all_ages(year_block, req, sex_code) ==
    LET ages_map == Get(year_block, sex_code, EmptyDict)
        Missing(a) == a \notin DOMAIN ages_map \/ IsNaN(ages_map[a])
        missing == SelectSeq(req, Missing)
    IN  [ok |-> missing = <<>>, missing |-> missing]

\* The issues of one sex code without the test of its presence: an absent
\* sex code is reported by its missing ages.
sex_issues_ages_only(year_block, sex_code, h) ==
    IF h.missing # <<>> THEN <<faltan_edades(sex_code, h.missing)>> ELSE <<>>

\* The issues of one sex code, lines 194-210.
sex_issues(year_block, sex_code, h) ==
    IF sex_code \notin DOMAIN year_block
    THEN <<falta_sex(sex_code)>>
    ELSE IF h.missing # <<>>
    THEN <<faltan_edades(sex_code, h.missing)>>
    ELSE <<>>

\* check_oecd_csv_for_iso3 building its issues in the order _M, _F, _T.
check_with_latest_MFT(iso3, idx, latest_year) ==
    LET req == idx.required_ages
        year_block == Get(Get(idx.by_iso3, iso3, EmptyDict), latest_year, EmptyDict)
        hT == has_all_ages(year_block, req, sex_T)
        hM == has_all_ages(year_block, req, sex_M)
        hF == has_all_ages(year_block, req, sex_F)
    IN  IF hT.ok \/ (hM.ok /\ hF.ok)
        THEN [ok |-> TRUE, year |-> latest_year, issues |-> <<>>]
        ELSE [ok |-> FALSE, year |-> latest_year,
              issues |-> sex_issues(year_block, sex_M, hM)
                         \o sex_issues(year_block, sex_F, hF)
                         \o sex_issues(year_block, sex_T, hT)]

\* check_oecd_csv_for_iso3, from "year_block = ..." on, for the latest_year chosen.
check_with_latest(iso3, idx, latest_year) ==
    LET req == idx.required_ages
        year_block == Get(Get(idx.by_iso3, iso3, EmptyDict), latest_year, EmptyDict)
        hT == has_all_ages(year_block, req, sex_T)
        hM == has_all_ages(year_block, req, sex_M)
        hF == has_all_ages(year_block, req, sex_F)
    IN  IF hT.ok
        THEN [ok |-> TRUE, year |-> latest_year, issues |-> <<>>]
        ELSE IF hM.ok /\ hF.ok
        THEN [ok |-> TRUE, year |-> latest_year, issues |-> <<>>]
        ELSE [ok |-> FALSE, year |-> latest_year,
              issues |-> sex_issues(year_block, sex_T, hT)
                         \o sex_issues(year_block, sex_M, hM)
                         \o sex_issues(year_block, sex_F, hF)]

\* The results check_oecd_csv_for_iso3(iso3, oecd_idx) can return.
check_oecd_csv_for_iso3(iso3, idx) ==
    LET years == Get(idx.years_by_iso3, iso3, {})
    IN  IF years = {}
        THEN {[ok |-> FALSE, year |-> None, issues |-> <<sin_filas_iso3>>]}
        ELSE {check_with_latest(iso3, idx, ly) : ly \in latest_year_choices(years)}

\* ------------------------------------------------------------ the bundle
\* The ISO2 -> ISO3 pairs of the simulator's countries.
ISO2_TO_ISO3_items ==
    { 
      <<<<"A", "T">>, <<"A", "U", "T">>>>, <<<<"A", "U">>, <<"A", "U", "S">>>>, <<<<"B", "E">>, <<"B", "E", "L">>>>,
      <<<<"C", "A">>, <<"C", "A", "N">>>>, <<<<"C", "H">>, <<"C", "H", "E">>>>, <<<<"C", "L">>, <<"C", "H", "L">>>>,
      <<<<"C", "O">>, <<"C", "O", "L">>>>, <<<<"C", "R">>, <<"C", "R", "I">>>>, <<<<"C", "Z">>, <<"C", "Z", "E">>>>,
      <<<<"D", "E">>, <<"D", "E", "U">>>>, <<<<"D", "K">>, <<"D", "N", "K">>>>, <<<<"E", "E">>, <<"E", "S", "T">>>>,
      <<<<"E", "S">>, <<"E", "S", "P">>>>, <<<<"F", "I">>, <<"F", "I", "N">>>>, <<<<"F", "R">>, <<"F", "R", "A">>>>,
      <<<<"G", "B">>, <<"G", "B", "R">>>>, <<<<"G", "R">>, <<"G", "R", "C">>>>, <<<<"H", "U">>, <<"H", "U", "N">>>>,
      <<<<"I", "E">>, <<"I", "R", "L">>>>, <<<<"I", "L">>, <<"I", "S", "R">>>>, <<<<"I", "S">>, <<"I", "S", "L">>>>,
      <<<<"I", "T">>, <<"I", "T", "A">>>>, <<<<"J", "P">>, <<"J", "P", "N">>>>, <<<<"K", "R">>, <<"K", "O", "R">>>>,
      <<<<"L", "T">>, <<"L", "T", "U">>>>, <<<<"L", "U">>, <<"L", "U", "X">>>>, <<<<"L", "V">>, <<"L", "V", "A">>>>,
      <<<<"M", "X">>, <<"M", "E", "X">>>>, <<<<"N", "L">>, <<"N", "L", "D">>>>, <<<<"N", "O">>, <<"N", "O", "R">>>>,
      <<<<"N", "Z">>, <<"N", "Z", "L">>>>, <<<<"P", "L">>, <<"P", "O", "L">>>>, <<<<"P", "T">>, <<"P", "R", "T">>>>,
      <<<<"S", "E">>, <<"S", "W", "E">>>>, <<<<"S", "I">>, <<"S", "V", "N">>>>, <<<<"S", "K">>, <<"S", "V", "K">>>>,
      <<<<"T", "R">>, <<"T", "U", "R">>>>, <<<<"U", "S">>, <<"U", "S", "A">>>> }

\* ISO2_TO_ISO3, a dict
ISO2_TO_ISO3 ==
    [k \in {p[1] : p \in ISO2_TO_ISO3_items} |->
        (CHOOSE p \in ISO2_TO_ISO3_items : p[1] = k)[2]]

\* A JSON scalar as json.load gives it: t is its Python type ("null", "float",
\* "int", "bool", "str"), nan whether a float is NaN, s its text.
JV(t, nan, s) == [t |-> t, nan |-> nan, s |-> s]

\* is_missing_value as "not v": 0, False and "" are missing too.
is_missing_value_falsy(v) ==
    \/ v.t = "null"
    \/ v.t = "float" /\ v.nan
    \/ v.t = "str" /\ Strip(v.s) = <<>>
    \/ v.t = "int" /\ v.s = <<"0">>
    \/ v.t = "bool" /\ v.s = <<"f", "a", "l", "s", "e">>

\* is_missing_value(v)
is_missing_value(v) ==
    \/ v.t = "null"
    \/ v.t = "float" /\ v.nan
    \/ v.t = "str" /\ Strip(v.s) = <<>>

\* sorted(S) of a set of str
RECURSIVE Sorted(_)
Sorted(S) ==
    IF S = {} THEN <<>>
    ELSE LET m == CHOOSE x \in S : \A y \in S : y = x \/ StrLess(x, y)
         IN  <<m>> \o Sorted(S \ {m})

Elems(seq) == {seq[i] : i \in 1..Len(seq)}

\* x or other, for an optional str x (None and "" are falsy)
StrOr(x, other) == IF x = None \/ x = <<>> THEN other ELSE x

\* entry.get("missing_fields") or [], a bare str made a list of one
declared_missing_of(entry) ==
    IF entry.missing_fields.kind = "str"
    THEN IF entry.missing_fields.items[1] = <<>> THEN <<>>
         ELSE <<entry.missing_fields.items[1]>>
    ELSE entry.missing_fields.items

\* The required keys missing from inputs, in the order of required_inputs.
missing_inputs_of(inputs, required) ==
    LET Missing(k) == k \notin DOMAIN inputs \/ is_missing_value(inputs[k])
    IN  SelectSeq(required, Missing)

\* analyze_country(iso2, entry, required_inputs)
analyze_country(iso2, entry, required) ==
    [iso2 |-> iso2,
     name |-> StrOr(entry.country.name, iso2),
     declared_missing |-> Sorted(Elems(declared_missing_of(entry))),
     missing_inputs |-> Sorted(Elems(missing_inputs_of(entry.inputs, required)))]

\* issue_key without the split: the whole issue is its key.
issue_key_whole(issue) == Strip(issue)

\* issue_key(issue)
issue_key(issue) == Strip(SplitFirst(issue, ":"))

\* for k in keys: counter[k] += 1
RECURSIVE CountAll(_, _)
CountAll(counter, keys) ==
    IF keys = <<>> THEN counter
    ELSE CountAll(Put(counter, Head(keys), Get(counter, Head(keys), 0) + 1), Tail(keys))

\* The crosswalk preferred to the code of the record.
resolve_iso3_crosswalk_first(entry, iso2) ==
    StrOr(Get(ISO2_TO_ISO3, iso2, None), StrOr(entry.country.iso3, None))

\* (entry.get("country") or {}).get("iso3") or ISO2_TO_ISO3.get(iso2)
resolve_iso3(entry, iso2) ==
    StrOr(entry.country.iso3, Get(ISO2_TO_ISO3, iso2, None))

\* [x.strip() for x in raw.split(",") if x.strip()]
parse_list(raw) ==
    LET parts == Split(raw, ",")
        stripped == [i \in 1..Len(parts) |-> Strip(parts[i])]
        NonEmpty(x) == x # <<>>
    IN  SelectSeq(stripped, NonEmpty)

\* row_score(r)
row_score(r) == 0 - (Len(r.declared_missing) + Len(r.missing_inputs) + Len(r.csv_issues))

\* The sort key without the code: rows of equal score keep their order.
key_le_score_only(a, b) == row_score(a) <= row_score(b)

\* (row_score(a), a[0]) <= (row_score(b), b[0]), as Python orders tuples
key_le(a, b) ==
    \/ row_score(a) < row_score(b)
    \/ row_score(a) = row_score(b) /\ (a.iso2 = b.iso2 \/ StrLess(a.iso2, b.iso2))

\* One row put into a sorted list after the rows whose key is not greater.
insert_row(sorted, r) ==
    LET before == {i \in 1..Len(sorted) : key_le(sorted[i], r)}
        n == Cardinality(before)
    IN  SubSeq(sorted, 1, n) \o <<r>> \o SubSeq(sorted, n + 1, Len(sorted))

\* rows.sort(key=lambda r: (row_score(r), r[0])): a stable sort
RECURSIVE sort_rows(_)
sort_rows(rs) ==
    IF rs = <<>> THEN <<>>
    ELSE insert_row(sort_rows(SubSeq(rs, 1, Len(rs) - 1)), rs[Len(rs)])

\* The rows whose block the "for ... in rows" loop prints.
printed_rows(rs, show_ok) ==
    LET Shown(r) ==
            ~(r.declared_missing = <<>> /\ r.missing_inputs = <<>>
              /\ r.csv_issues = <<>> /\ ~show_ok)
    IN  SelectSeq(rs, Shown)

\* ------------------------------------------------------------------ main
NoRes == [called |-> FALSE, iso3 |-> None, ok |-> FALSE, year |-> None, issues |-> <<>>]

NoIdx == [present |-> FALSE, by_iso3 |-> EmptyDict, years_by_iso3 |-> EmptyDict,
          sexes_by_iso3 |-> EmptyDict, required_ages |-> <<>>]

\* The state after args = ap.parse_args() and the two list comprehensions.
InitWith(ArgSet) ==
    /\ args \in ArgSet
    /\ required_inputs = parse_list(args.required_inputs)
    /\ required_ages = parse_list(args.required_ages)
    /\ pc = "load_json"
    /\ exit_msg = ""
    /\ header = [read |-> FALSE, fieldnames |-> {}]
    /\ by_iso3 = EmptyDict
    /\ years_by_iso3 = EmptyDict
    /\ sexes_by_iso3 = EmptyDict
    /\ row = <<>>
    /\ nrows = 0
    /\ oecd_idx = NoIdx
    /\ res = NoRes
    /\ total = 0
    /\ with_issues = 0
    /\ freq_declared = EmptyDict
    /\ freq_inputs = EmptyDict
    /\ freq_csv = EmptyDict
    /\ rows = <<>>
    /\ analyzed = <<>>
    /\ keys_seen = {}
    /\ printed = <<>>

\* data = load_json(...); countries = data.get("countries"): SystemExit unless a dict.
LoadJson ==
    /\ pc = "load_json"
    /\ \E is_dict \in BOOLEAN :
           /\ pc' = IF is_dict THEN "load_csv" ELSE "exit"
           /\ exit_msg' = IF is_dict THEN "" ELSE "estructura"
    /\ UNCHANGED <<args, required_inputs, required_ages, res, printed>>
    /\ UNCHANGED csv_vars
    /\ UNCHANGED loop_vars

\* Without --oecd-csv the table is not read and oecd_idx stays None.
SkipCsv ==
    /\ pc = "load_csv"
    /\ ~args.oecd_csv
    /\ pc' = "loop"
    /\ UNCHANGED <<exit_msg, args, required_inputs, required_ages, res, printed>>
    /\ UNCHANGED csv_vars
    /\ UNCHANGED loop_vars

\* load_oecd_population_csv up to the header checks; its ValueError becomes
\* main's SystemExit.
OpenCsv(fieldnames) ==
    /\ pc = "load_csv"
    /\ args.oecd_csv
    /\ header' = [read |-> TRUE, fieldnames |-> fieldnames]
    /\ pc' = IF header_fails(fieldnames) THEN "exit" ELSE "reading"
    /\ exit_msg' = IF header_fails(fieldnames) THEN "csv" ELSE ""
    /\ UNCHANGED <<args, required_inputs, required_ages, res, printed>>
    /\ UNCHANGED <<by_iso3, years_by_iso3, sexes_by_iso3, row, nrows, oecd_idx>>
    /\ UNCHANGED loop_vars

\* One iteration of "for row in r": the three dicts after the row.
ReadRowBody(r) ==
    /\ pc = "reading"
    /\ nrows < MaxRows
    /\ LET idx == load_row([by_iso3 |-> by_iso3, years_by_iso3 |-> years_by_iso3,
                            sexes_by_iso3 |-> sexes_by_iso3],
                           r, Elems(required_ages))
       IN  /\ by_iso3' = idx.by_iso3
           /\ years_by_iso3' = idx.years_by_iso3
           /\ sexes_by_iso3' = idx.sexes_by_iso3
    /\ nrows' = nrows + 1
    /\ UNCHANGED <<pc, exit_msg, args, required_inputs, required_ages, header, oecd_idx,
                   res, printed>>
    /\ UNCHANGED loop_vars

\* The iteration with its row forgotten: nothing after the body reads it.
ReadRow(r) == ReadRowBody(r) /\ row' = <<>>

\* The iteration with its row kept, for the properties of a single row.
ReadRowKeep(r) == ReadRowBody(r) /\ row' = <<r>>

\* The table is exhausted: load_oecd_population_csv returns the index.
EndCsv ==
    /\ pc = "reading"
    /\ oecd_idx' = [present |-> TRUE, by_iso3 |-> by_iso3,
                    years_by_iso3 |-> years_by_iso3,
                    sexes_by_iso3 |-> sexes_by_iso3,
                    required_ages |-> required_ages]
    /\ row' = <<>>
    /\ nrows' = 0
    /\ pc' = "loop"
    /\ UNCHANGED <<exit_msg, args, required_inputs, required_ages, by_iso3,
                   years_by_iso3, sexes_by_iso3, header, res, printed>>
    /\ UNCHANGED loop_vars

\* A call check_oecd_csv_for_iso3(iso3, oecd_idx) on the loaded index.
CheckRegion(iso3) ==
    /\ pc = "loop"
    /\ oecd_idx.present
    /\ \E r \in check_oecd_csv_for_iso3(iso3, oecd_idx) :
           res' = [called |-> TRUE, iso3 |-> iso3, ok |-> r.ok, year |-> r.year,
                   issues |-> r.issues]
    /\ pc' = "checked"
    /\ UNCHANGED <<exit_msg, args, required_inputs, required_ages, printed>>
    /\ UNCHANGED csv_vars
    /\ UNCHANGED loop_vars

\* One iteration of "for iso2, entry in countries.items()" on an entry that
\* is not a dict: counted, then skipped.
SkipEntry(key) ==
    /\ pc = "loop"
    /\ Cardinality(keys_seen) < MaxCountries
    /\ key \notin keys_seen
    /\ keys_seen' = keys_seen \cup {key}
    /\ total' = total + 1
    /\ UNCHANGED <<pc, exit_msg, args, required_inputs, required_ages, res, printed,
                   with_issues, freq_declared, freq_inputs, freq_csv, rows, analyzed>>
    /\ UNCHANGED csv_vars

\* The tuple one iteration computes for a dict entry, given the result chk of
\* the check of the table (NoRes when it is not called).
country_row(key, entry, chk) ==
    LET iso2 == Upper(Strip(key))
        a == analyze_country(iso2, entry, required_inputs)
        iso3 == IF oecd_idx.present THEN resolve_iso3(entry, iso2) ELSE None
    IN  [iso2 |-> a.iso2, name |-> a.name,
         declared_missing |-> a.declared_missing,
         missing_inputs |-> a.missing_inputs,
         iso3 |-> iso3,
         csv_year |-> IF chk.called THEN chk.year ELSE None,
         csv_issues |-> IF ~oecd_idx.present THEN <<>>
                        ELSE IF iso3 = None THEN <<no_iso3_mapping>>
                        ELSE IF ~chk.ok THEN chk.issues
                        ELSE <<>>]

\* has_issues without the issues of the table.
has_issues_json_only(r) == r.declared_missing # <<>> \/ r.missing_inputs # <<>>

\* has_issues = bool(declared_missing or missing_inputs or csv_issues)
has_issues(r) ==
    r.declared_missing # <<>> \/ r.missing_inputs # <<>> \/ r.csv_issues # <<>>

\* The checks of the table one iteration can get: none without an index or
\* without an iso3, else a result of check_oecd_csv_for_iso3.
country_checks(key, entry) ==
    LET iso3 == resolve_iso3(entry, Upper(Strip(key)))
    IN  IF ~oecd_idx.present \/ iso3 = None THEN {NoRes}
        ELSE {[called |-> TRUE, iso3 |-> iso3, ok |-> r.ok, year |-> r.year,
               issues |-> r.issues] : r \in check_oecd_csv_for_iso3(iso3, oecd_idx)}

\* One iteration of "for iso2, entry in countries.items()" on a dict entry.
AnalyzeEntry(key, entry) ==
    /\ pc = "loop"
    /\ Cardinality(keys_seen) < MaxCountries
    /\ key \notin keys_seen
    /\ \E chk \in country_checks(key, entry) :
        LET r == country_row(key, entry, chk)
        IN  /\ res' = chk
            /\ freq_declared' = CountAll(freq_declared, r.declared_missing)
            /\ freq_inputs' = CountAll(freq_inputs, r.missing_inputs)
            /\ freq_csv' = CountAll(freq_csv,
                                    [i \in 1..Len(r.csv_issues) |-> issue_key(r.csv_issues[i])])
            /\ with_issues' = IF has_issues(r) THEN with_issues + 1 ELSE with_issues
            /\ rows' = IF has_issues(r) \/ args.show_ok THEN Append(rows, r) ELSE rows
            /\ analyzed' = Append(analyzed,
                                   [key |-> key, entry |-> entry, chk |-> chk, row |-> r])
    /\ keys_seen' = keys_seen \cup {key}
    /\ total' = total + 1
    /\ UNCHANGED <<pc, exit_msg, args, required_inputs, required_ages, printed>>
    /\ UNCHANGED csv_vars

\* countries.items() is exhausted: rows.sort(...) and the report's head.
SortRows ==
    /\ pc = "loop"
    /\ rows' = sort_rows(rows)
    /\ pc' = "print"
    /\ UNCHANGED <<exit_msg, args, required_inputs, required_ages, res, printed, total,
                   with_issues, freq_declared, freq_inputs, freq_csv, analyzed, keys_seen>>
    /\ UNCHANGED csv_vars

\* The country blocks and the frequency tables.
PrintReport ==
    /\ pc = "print"
    /\ printed' = printed_rows(rows, args.show_ok)
    /\ pc' = "done"
    /\ UNCHANGED <<exit_msg, args, required_inputs, required_ages, res>>
    /\ UNCHANGED csv_vars
    /\ UNCHANGED loop_vars

\* --------------------------------------------------------------- inputs
Row(iso3, sex, age, year, val) ==
    [REF_AREA |-> iso3, SEX |-> sex, AGE |-> age, TIME_PERIOD |-> year, OBS_VALUE |-> val]

\* Headers: every set of the five columns and one more.
Headers == SUBSET (required_cols \cup {"OBS_STATUS"})

\* The header of a table of the provider, and one without its value column.
HeaderOk == {required_cols}

HeadersMain == {required_cols, required_cols \ {"OBS_VALUE"}}

\* Coverage: one region, two periods, the three sex codes, two required age
\* bands and, in the later period, the total (an AGE that is not required) and
\* values that do not parse.
CovArgs ==
    {[show_ok |-> FALSE, oecd_csv |-> TRUE,
      required_inputs |-> <<"t", "a", "u">>,
      required_ages |-> <<"Y", "_", "L", "E", "4", ",", "Y", "5", "T", "9">>]}

CovRows ==
    {r \in {Row(<<"E", "S", "P">>, s, a, y, v) :
                s \in {sex_T, sex_M, sex_F},
                a \in {<<"Y", "_", "L", "E", "4">>, <<"Y", "5", "T", "9">>, <<"_", "T">>},
                y \in {<<"2", "0", "1", "9">>, <<"2", "0", "2", "0">>},
                v \in {<<"1", ".", "5">>, <<"x">>}} :
        /\ r.AGE = <<"_", "T">> => r.OBS_VALUE = <<"1", ".", "5">>
        /\ r.TIME_PERIOD = <<"2", "0", "1", "9">> => r.OBS_VALUE = <<"1", ".", "5">> /\ r.AGE # <<"_", "T">>}

InitCov == InitWith(CovArgs)

NextCov ==
    \/ LoadJson
    \/ \E h \in HeaderOk : OpenCsv(h)
    \/ \E r \in CovRows : ReadRow(r)
    \/ EndCsv
    \/ CheckRegion(<<"E", "S", "P">>)

SpecCov == InitCov /\ [][NextCov]_vars

\* Periods: one region, one series, periods that are ints (with a sign, zero
\* padding or an underscore) and periods that are not.
PerArgs ==
    {[show_ok |-> FALSE, oecd_csv |-> TRUE,
      required_inputs |-> <<"t", "a", "u">>,
      required_ages |-> <<"Y", "_", "L", "E", "4">>]}

PerYears ==
    {<<"9", "9", "9">>, <<"2", "0", "2", "0">>, <<"0", "2", "0", "2", "0">>, <<"2", "_", "0", "2", "0">>, <<"2", ".">>, <<"1", "9", "9", "9">>, <<"2", "0", "1", "0">>, <<"2", "0", "0", "1">>}

PerRows == {Row(<<"E", "S", "P">>, sex_T, <<"Y", "_", "L", "E", "4">>, y, <<"1", ".", "5">>) : y \in PerYears}

InitPer == InitWith(PerArgs)

NextPer ==
    \/ LoadJson
    \/ \E h \in HeaderOk : OpenCsv(h)
    \/ \E r \in PerRows : ReadRow(r)
    \/ EndCsv
    \/ \E iso3 \in {<<"E", "S", "P">>, <<"F", "R", "A">>} : CheckRegion(iso3)

SpecPer == InitPer /\ [][NextPer]_vars

\* Loading: every header, and rows whose cells are blank, absent (a short
\* row), padded, unparseable, or a float literal of any form.
LoadArgs == PerArgs

LoadRows ==
    {Row(i, s, a, y, v) :
        i \in {<<" ", "E", "S", "P", " ">>, <<>>},
        s \in {<<"_", "T">>, <<" ">>},
        a \in {<<"Y", "_", "L", "E", "4">>, <<"_", "T">>, <<>>},
        y \in {<<"2", "0", "2", "0">>, None},
        v \in {<<"1", ".", "5">>, <<"x">>, None, <<"n", "a", "n">>, <<" ", "1", "e", "3", " ">>}}

InitLoad == InitWith(LoadArgs)

NextLoad ==
    \/ LoadJson
    \/ \E h \in Headers : OpenCsv(h)
    \/ \E r \in LoadRows : ReadRowKeep(r)
    \/ EndCsv

SpecLoad == InitLoad /\ [][NextLoad]_vars

\* The report: a bundle of up to MaxCountries entries over three keys, with
\* or without a table of one series.
MainArgs ==
    {[show_ok |-> s, oecd_csv |-> c,
      required_inputs |-> <<"t", "a", "u", ",", " ", "r", "h", "o", ",", ",", "t", "a", "u">>,
      required_ages |-> <<"Y", "_", "L", "E", "4">>] : s \in BOOLEAN, c \in BOOLEAN}

MainRows == {Row(<<"E", "S", "P">>, sex_T, <<"Y", "_", "L", "E", "4">>, <<"2", "0", "2", "0">>, v) : v \in {<<"1", ".", "5">>, <<"x">>}}

MainKeys == {<<" ", "e", "s">>, <<"F", "R">>, <<"X", "X">>}

Country(name, iso3) == [name |-> name, iso3 |-> iso3]

MissingFields(kind, items) == [kind |-> kind, items |-> items]

Entry(country, missing_fields, inputs) ==
    [country |-> country, missing_fields |-> missing_fields, inputs |-> inputs]

MainEntries ==
    { Entry(Country(<<"S", "p", "a", "i", "n">>, None), MissingFields("none", <<>>),
            (<<"t", "a", "u">> :> JV("float", FALSE, <<"0", ".", "8">>)) @@ (<<"r", "h", "o">> :> JV("int", FALSE, <<"0">>))
            @@ (<<"u">> :> JV("null", FALSE, <<>>))),
      Entry(Country(None, <<"E", "S", "P">>), MissingFields("str", <<<<"t", "a", "u">>>>),
            (<<"t", "a", "u">> :> JV("null", FALSE, <<>>)) @@ (<<"r", "h", "o">> :> JV("str", FALSE, <<"0">>))),
      Entry(Country(<<>>, <<>>), MissingFields("list", <<<<"u">>, <<"k">>, <<"u">>>>),
            (<<"r", "h", "o">> :> JV("str", FALSE, <<" ", "\t">>))),
      Entry(Country(None, None), MissingFields("str", <<<<>>>>),
            (<<"t", "a", "u">> :> JV("float", TRUE, <<"N", "a", "N">>)) @@ (<<"r", "h", "o">> :> JV("bool", FALSE, <<"f", "a", "l", "s", "e">>))) }

Init == InitWith(MainArgs)

Next ==
    \/ LoadJson
    \/ SkipCsv
    \/ \E h \in HeadersMain : OpenCsv(h)
    \/ \E r \in MainRows : ReadRow(r)
    \/ EndCsv
    \/ \E k \in MainKeys : SkipEntry(k)
    \/ \E k \in MainKeys, e \in MainEntries : AnalyzeEntry(k, e)
    \/ SortRows
    \/ PrintReport

Spec == Init /\ [][Next]_vars

\* Whole runs with the table active: a region with the periods "2020" and
\* "02020", of the same int value, and a --required-inputs that names a field
\* or names none.
RunArgs ==
    {[show_ok |-> s, oecd_csv |-> TRUE,
      required_inputs |-> ri,
      required_ages |-> <<"Y", "_", "L", "E", "4">>] : s \in BOOLEAN, ri \in {<<"t", "a", "u">>, <<" ", ",", " ">>}}

RunRows ==
    {Row(<<"E", "S", "P">>, sex_T, a, y, <<"1", ".", "5">>) : a \in {<<"Y", "_", "L", "E", "4">>, <<"_", "T">>}, y \in {<<"2", "0", "2", "0">>, <<"0", "2", "0", "2", "0">>}}

RunKeys == {<<"E", "S">>, <<"F", "R">>}

RunEntries ==
    { Entry(Country(<<"S", "p", "a", "i", "n">>, None), MissingFields("none", <<>>),
            (<<"t", "a", "u">> :> JV("float", FALSE, <<"0", ".", "8">>))),
      Entry(Country(None, <<"E", "S", "P">>), MissingFields("str", <<<<"t", "a", "u">>>>),
            (<<"r", "h", "o">> :> JV("int", FALSE, <<"0">>))) }

InitRun == InitWith(RunArgs)

NextRun ==
    \/ LoadJson
    \/ \E h \in HeaderOk : OpenCsv(h)
    \/ \E r \in RunRows : ReadRow(r)
    \/ EndCsv
    \/ \E k \in RunKeys, e \in RunEntries : AnalyzeEntry(k, e)
    \/ SortRows
    \/ PrintReport

SpecRun == InitRun /\ [][NextRun]_vars

\* An earlier and a later period: the earlier one complete for every sex
\* code, the later one with a value that does not parse, with a band that is
\* not required, and with a row that is skipped for its blank age band.
FallRows ==
    {Row(<<"E", "S", "P">>, s, <<"Y", "_", "L", "E", "4">>, <<"2", "0", "1", "9">>, <<"1", ".", "5">>) : s \in {sex_T, sex_M, sex_F}}
    \cup {Row(<<"E", "S", "P">>, sex_T, <<"Y", "_", "L", "E", "4">>, <<"2", "0", "2", "0">>, <<"x">>),
          Row(<<"E", "S", "P">>, sex_M, <<"Y", "_", "L", "E", "4">>, <<"2", "0", "2", "0">>, <<"1", ".", "5">>),
          Row(<<"E", "S", "P">>, sex_T, <<"_", "T">>, <<"2", "0", "2", "0">>, <<"1", ".", "5">>),
          Row(<<"E", "S", "P">>, sex_T, <<" ">>, <<"2", "0", "2", "1">>, <<"1", ".", "5">>)}

InitFall == InitWith(PerArgs)

NextFall ==
    \/ LoadJson
    \/ \E h \in HeaderOk : OpenCsv(h)
    \/ \E r \in FallRows : ReadRowKeep(r)
    \/ EndCsv
    \/ CheckRegion(<<"E", "S", "P">>)

SpecFall == InitFall /\ [][NextFall]_vars

\* ------------------------------------------------------------ properties
\* The periods recorded for the region of the last check.
ResYears == Get(oecd_idx.years_by_iso3, res.iso3, {})

\* The check was made for a region with at least one recorded period.
ResHasRows == res.called /\ ResYears # {}

\* index[region][period][sex][age] is present.
Stored(idx, iso3, year, sex, age) ==
    /\ iso3 \in DOMAIN idx.by_iso3
    /\ year \in DOMAIN idx.by_iso3[iso3]
    /\ sex \in DOMAIN idx.by_iso3[iso3][year]
    /\ age \in DOMAIN idx.by_iso3[iso3][year][sex]

\* A band is covered when it is present in the index and not stored as NaN.
BandCovered(idx, iso3, year, sex, age) ==
    /\ Stored(idx, iso3, year, sex, age)
    /\ idx.by_iso3[iso3][year][sex][age].kind # "nan"

\* The series of a sex code covers every required age band at a period.
SeriesComplete(idx, iso3, year, sex) ==
    \A age \in Elems(idx.required_ages) : BandCovered(idx, iso3, year, sex, age)

\* The sex code has some required band stored at the period.
SeriesPresent(idx, iso3, year, sex) ==
    \E age \in Elems(idx.required_ages) : Stored(idx, iso3, year, sex, age)

ResComplete(sex) == SeriesComplete(oecd_idx, res.iso3, res.year, sex)

ResPresent(sex) == SeriesPresent(oecd_idx, res.iso3, res.year, sex)

\* C1: for a region with a recorded period, the check returns usable with no
\* issue exactly when, at the period it resolved, _T covers every required
\* band or _M and _F both do; complete _T suffices whatever _M and _F hold;
\* otherwise it returns not usable with at least one issue.
C1_UsableIffCovered ==
    ResHasRows =>
        /\ res.year \in ResYears
        /\ res.ok <=> (ResComplete(sex_T) \/ (ResComplete(sex_M) /\ ResComplete(sex_F)))
        /\ ResComplete(sex_T) => res.ok
        /\ res.ok => res.issues = <<>>
        /\ ~res.ok => res.issues # <<>>

\* Usable through _M and _F while _T is not complete.
C1_Witness ==
    /\ ResHasRows
    /\ res.ok
    /\ ~ResComplete(sex_T)
    /\ ResComplete(sex_M)
    /\ ResComplete(sex_F)

AllInts(years) == \A y \in years : _safe_int(y).ok

\* C2: the period resolved is, when every recorded period parses as an
\* integer, one of maximal integer value, and otherwise the greatest period
\* as a string; for a region without periods the result is not usable, has no
\* period and has the single issue sin_filas_iso3.
C2_LatestPeriod ==
    res.called =>
        IF ResYears = {}
        THEN res.ok = FALSE /\ res.year = None /\ res.issues = <<sin_filas_iso3>>
        ELSE /\ res.year \in ResYears
             /\ AllInts(ResYears) =>
                    \A y \in ResYears : _safe_int(y).v <= _safe_int(res.year).v
             /\ ~AllInts(ResYears) =>
                    \A y \in ResYears : y = res.year \/ StrLess(y, res.year)

\* Every period is an integer and the one resolved is not the greatest string.
C2_Witness ==
    /\ ResHasRows
    /\ AllInts(ResYears)
    /\ \E y \in ResYears : StrLess(res.year, y)

\* The sex codes observed for the region of the last check, in any row.
ResSexes == Get(oecd_idx.sexes_by_iso3, res.iso3, {})

HasIssue(issue) == \E i \in 1..Len(res.issues) : res.issues[i] = issue

\* The issue is a faltan_edades entry of the sex code.
IsMissingAges(issue, sex) ==
    /\ Len(issue) > Len(faltan_edades(sex, <<>>))
    /\ SubSeq(issue, 1, Len(faltan_edades(sex, <<>>))) = faltan_edades(sex, <<>>)

HasMissingAges(sex) == \E i \in 1..Len(res.issues) : IsMissingAges(res.issues[i], sex)

SexCodes == {sex_T, sex_M, sex_F}

\* C3 as stated: when the coverage is not usable, falta_sex_<code> is an issue
\* exactly when the sex code was never observed for the region in any row, and
\* an observed but incomplete sex code has a faltan_edades entry instead.
C3_Original_NeverObserved ==
    (ResHasRows /\ ~res.ok) =>
        \A sex \in SexCodes :
            /\ HasIssue(falta_sex(sex)) <=> sex \notin ResSexes
            /\ (sex \in ResSexes /\ ~ResComplete(sex)) =>
                   (HasMissingAges(sex) /\ ~HasIssue(falta_sex(sex)))

\* C3 amended: when the coverage is not usable, falta_sex_<code> is an issue
\* exactly when the sex code has no required age band stored at the resolved
\* latest period; a sex code with a stored band there that is incomplete has
\* a faltan_edades entry and no falta_sex entry.
C3_MissingAtLatestPeriod ==
    (ResHasRows /\ ~res.ok) =>
        \A sex \in SexCodes :
            /\ HasIssue(falta_sex(sex)) <=> ~ResPresent(sex)
            /\ (ResPresent(sex) /\ ~ResComplete(sex)) =>
                   (HasMissingAges(sex) /\ ~HasIssue(falta_sex(sex)))

\* _T was observed for the region, yet not at the latest period, and is
\* reported as a missing sex.
C3_Witness ==
    /\ ResHasRows
    /\ ~res.ok
    /\ sex_T \in ResSexes
    /\ ~ResPresent(sex_T)
    /\ HasIssue(falta_sex(sex_T))

\* The issue is about the sex code: its falta_sex or its faltan_edades entry.
AboutSex(issue, sex) == issue = falta_sex(sex) \/ IsMissingAges(issue, sex)

SexOrder == <<sex_T, sex_M, sex_F>>

\* The age bands a faltan_edades entry names, in its order.
BandsNamed(issue) == Split(SubSeq(issue, FirstIndex(issue, ":") + 1, Len(issue)), "|")

\* The required bands absent or NaN for the sex code at the resolved period.
ResUncovered(sex) ==
    {a \in Elems(oecd_idx.required_ages) :
        ~BandCovered(oecd_idx, res.iso3, res.year, sex, a)}

\* C4: when the coverage is not usable, every issue is about one of _T, _M,
\* _F, the issues follow the order _T, _M, _F with at most one per sex code,
\* a sex code complete at the latest period has none, and a faltan_edades
\* entry names exactly the required bands absent or NaN for its sex code.
\* One band missing in all three gives three entries naming that band; only a
\* complete _M series gives [falta_sex_T, falta_sex_F].
C4_IssueList ==
    (ResHasRows /\ ~res.ok) =>
        /\ \A i \in 1..Len(res.issues) : \E sex \in SexCodes : AboutSex(res.issues[i], sex)
        /\ \A i, j \in 1..Len(res.issues) : \A a, b \in 1..3 :
               (i < j /\ AboutSex(res.issues[i], SexOrder[a])
                      /\ AboutSex(res.issues[j], SexOrder[b])) => a < b
        /\ \A sex \in SexCodes :
               Cardinality({i \in 1..Len(res.issues) : AboutSex(res.issues[i], sex)}) <= 1
        /\ \A sex \in SexCodes : \A i \in 1..Len(res.issues) :
               ResComplete(sex) => ~AboutSex(res.issues[i], sex)
        /\ \A sex \in SexCodes : \A i \in 1..Len(res.issues) :
               IsMissingAges(res.issues[i], sex) =>
                   /\ Elems(BandsNamed(res.issues[i])) = ResUncovered(sex)
                   /\ Len(BandsNamed(res.issues[i])) = Cardinality(ResUncovered(sex))
        /\ \A a \in Elems(oecd_idx.required_ages) :
               (\A sex \in SexCodes : ResPresent(sex) /\ ResUncovered(sex) = {a}) =>
                   res.issues = <<faltan_edades(sex_T, <<a>>), faltan_edades(sex_M, <<a>>),
                                  faltan_edades(sex_F, <<a>>)>>
        /\ (ResSexes = {sex_M} /\ ResComplete(sex_M)) =>
               res.issues = <<falta_sex(sex_T), falta_sex(sex_F)>>

\* The same single band is missing in all three sex codes.
C4_Witness ==
    /\ ResHasRows
    /\ ~res.ok
    /\ Len(res.issues) = 3
    /\ \E a \in Elems(oecd_idx.required_ages) :
           \A sex \in SexCodes : ResPresent(sex) /\ ResUncovered(sex) = {a}

\* A cell of a row is blank: absent, empty or only whitespace.
CellBlank(c) == c = None \/ \A i \in 1..Len(c) : IsSpace(c[i])

\* The row is one the loader skips.
RowBlank(r) ==
    CellBlank(r.REF_AREA) \/ CellBlank(r.SEX) \/ CellBlank(r.AGE) \/ CellBlank(r.TIME_PERIOD)

\* The row is not skipped and its age band is required.
RowRequired(r) == ~RowBlank(r) /\ Strip(r.AGE) \in Elems(required_ages)

\* The row's OBS_VALUE is not a float literal.
RowUnparseable(r) == r.OBS_VALUE = None \/ ~ParseFloat(r.OBS_VALUE).ok

\* The dicts of the loader, as an index.
LoaderIdx ==
    [by_iso3 |-> by_iso3, years_by_iso3 |-> years_by_iso3,
     sexes_by_iso3 |-> sexes_by_iso3, required_ages |-> required_ages]

RowStored(r) ==
    Stored(LoaderIdx, Strip(r.REF_AREA), Strip(r.TIME_PERIOD), Strip(r.SEX), Strip(r.AGE))

RowCell(r) == by_iso3[Strip(r.REF_AREA)][Strip(r.TIME_PERIOD)][Strip(r.SEX)][Strip(r.AGE)]

HeaderComplete ==
    \A c \in {"REF_AREA", "SEX", "AGE", "TIME_PERIOD", "OBS_VALUE"} : c \in header.fieldnames

\* The loader fails exactly on a header that is empty or lacks a column, and
\* then returns no index; with a complete header it goes on to read and return.
C5_Header ==
    /\ ~header.read => exit_msg # "csv"
    /\ header.read =>
           /\ exit_msg = "csv" <=> (header.fieldnames = {} \/ ~HeaderComplete)
           /\ exit_msg = "csv" => (pc = "exit" /\ ~oecd_idx.present)
           /\ HeaderComplete => pc \in {"reading", "loop"}

\* A row read with a required age band and no blank field is stored, as NaN
\* when its OBS_VALUE does not parse and as its value when it does.
C5_RowStored ==
    (pc = "reading" /\ row # <<>> /\ RowRequired(row[1])) =>
        /\ RowStored(row[1])
        /\ RowUnparseable(row[1]) => RowCell(row[1]).kind = "nan"
        /\ ~RowUnparseable(row[1]) => RowCell(row[1]) = ParseFloat(row[1].OBS_VALUE).val

\* Reading a row never fails, and a row with a blank field changes nothing.
C5_RowStep ==
    /\ pc = "reading" => pc' \in {"reading", "loop"}
    /\ (pc = "reading" /\ pc' = "reading" /\ row' # <<>> /\ RowBlank(row'[1])) =>
           UNCHANGED <<by_iso3, years_by_iso3, sexes_by_iso3>>

\* C5: load_oecd_population_csv fails if and only if the header is empty or
\* lacks one of the five columns; with all five it returns an index whatever
\* the rows hold: rows with a blank region, sex, age or period are skipped, and
\* an unparseable OBS_VALUE on a required band is stored as NaN.
C5_LoaderNeverFailsOnRows == [](C5_Header /\ C5_RowStored) /\ [][C5_RowStep]_vars

\* A row whose value does not parse was read and is stored as NaN.
C5_Witness ==
    /\ pc = "reading"
    /\ row # <<>>
    /\ RowRequired(row[1])
    /\ RowUnparseable(row[1])
    /\ RowCell(row[1]).kind = "nan"

\* A value is missing: null, a float NaN, or a string of whitespace only.
ValueMissing(v) ==
    \/ v.t = "null"
    \/ v.t = "float" /\ v.nan
    \/ v.t = "str" /\ \A i \in 1..Len(v.s) : IsSpace(v.s[i])

\* 0, false, a non-blank string and any finite number.
ValuePresent(v) ==
    \/ v.t \in {"int", "bool"}
    \/ v.t = "float" /\ ~v.nan
    \/ v.t = "str" /\ \E i \in 1..Len(v.s) : ~IsSpace(v.s[i])

Ascending(seq) == \A j \in 1..(Len(seq) - 1) : StrLess(seq[j], seq[j + 1])

\* C6: the missing inputs of every analysed record are exactly the required
\* keys absent from its inputs or holding a missing value (null, NaN, blank
\* string); 0, false, "0" and finite numbers are present; the list is sorted
\* and free of duplicates.
C6_MissingInputs ==
    \A i \in 1..Len(analyzed) :
        LET inputs == analyzed[i].entry.inputs
            m == analyzed[i].row.missing_inputs
        IN  /\ Elems(m) = {k \in Elems(required_inputs) :
                              k \notin DOMAIN inputs \/ ValueMissing(inputs[k])}
            /\ \A k \in DOMAIN inputs : ValuePresent(inputs[k]) => k \notin Elems(m)
            /\ Ascending(m)

\* tau is null, rho is the string "0": exactly tau is missing.
C6_Witness ==
    \E i \in 1..Len(analyzed) :
        LET inputs == analyzed[i].entry.inputs
        IN  /\ DOMAIN inputs = Elems(required_inputs)
            /\ inputs[<<"t", "a", "u">>].t = "null"
            /\ inputs[<<"r", "h", "o">>] = JV("str", FALSE, <<"0">>)
            /\ analyzed[i].row.missing_inputs = <<<<"t", "a", "u">>>>

\* An optional string of a record that is there and not empty.
Given(x) == x # None /\ x # <<>>

\* C7: with a table, the 3-letter code of a country is the one in its record
\* if there is one, else the crosswalk's entry for its trimmed, upper-cased
\* key; with neither, the only issue is no_iso3_mapping, there is no period
\* and the table is not checked.  Without a table there is no code, no period
\* and no issue of the table.
C7_RegionCode ==
    \A i \in 1..Len(analyzed) :
        LET a == analyzed[i]
            embedded == a.entry.country.iso3
            iso2 == Upper(Strip(a.key))
        IN  IF oecd_idx.present
            THEN /\ Given(embedded) => a.row.iso3 = embedded
                 /\ (~Given(embedded) /\ iso2 \in DOMAIN ISO2_TO_ISO3) =>
                        a.row.iso3 = ISO2_TO_ISO3[iso2]
                 /\ (~Given(embedded) /\ iso2 \notin DOMAIN ISO2_TO_ISO3) =>
                        /\ a.row.iso3 = None
                        /\ a.row.csv_issues = <<no_iso3_mapping>>
                        /\ a.row.csv_year = None
                        /\ ~a.chk.called
                 /\ a.row.iso3 # None => (a.chk.called /\ a.chk.iso3 = a.row.iso3)
            ELSE /\ a.row.iso3 = None
                 /\ a.row.csv_year = None
                 /\ a.row.csv_issues = <<>>
                 /\ ~a.chk.called

\* A record with a code of its own under a key the crosswalk maps elsewhere,
\* and a record with no code under a key the crosswalk lacks.
C7_Witness ==
    /\ oecd_idx.present
    /\ \E i \in 1..Len(analyzed) :
           /\ analyzed[i].row.iso3 = <<"E", "S", "P">>
           /\ Upper(Strip(analyzed[i].key)) = <<"F", "R">>
    /\ \E i \in 1..Len(analyzed) : analyzed[i].row.csv_issues = <<no_iso3_mapping>>

\* Any of the three collections of a row is non-empty.
RowHasIssues(r) ==
    Len(r.declared_missing) + Len(r.missing_inputs) + Len(r.csv_issues) > 0

Occurrences(seq, x) == Cardinality({i \in 1..Len(seq) : seq[i] = x})

\* Two sequences hold the same elements the same number of times.
SameBag(p, q) ==
    /\ Len(p) = Len(q)
    /\ \A x \in Elems(p) \cup Elems(q) : Occurrences(p, x) = Occurrences(q, x)

AnalyzedRows == [i \in 1..Len(analyzed) |-> analyzed[i].row]

\* C8: with_issues counts the analysed records with a non-empty collection;
\* the report has a block for exactly those without --show-ok and for every
\* analysed record with it.
C8_WithIssues ==
    /\ with_issues = Cardinality({i \in 1..Len(analyzed) : RowHasIssues(analyzed[i].row)})
    /\ pc = "done" =>
           SameBag(printed,
                   IF args.show_ok THEN AnalyzedRows
                   ELSE SelectSeq(AnalyzedRows, RowHasIssues))

\* Two records, one of them clean and left out of the report, the other with
\* issues of the table only.
C8_Witness ==
    /\ pc = "done"
    /\ ~args.show_ok
    /\ Len(analyzed) = 2
    /\ Len(printed) = 1
    /\ printed[1].declared_missing = <<>>
    /\ printed[1].missing_inputs = <<>>

\* The part of an issue before its first ':'.
IssueKeyOf(issue) == SubSeq(issue, 1, FirstIndex(issue, ":") - 1)

\* The keys of the issues of a row.
IssueKeys(r) == {IssueKeyOf(r.csv_issues[i]) : i \in 1..Len(r.csv_issues)}

\* The analysed records whose collection holds the key.
Holding(Coll(_), k) == Cardinality({i \in 1..Len(analyzed) : k \in Coll(analyzed[i].row)})

DeclaredOf(r) == Elems(r.declared_missing)

InputsOf(r) == Elems(r.missing_inputs)

\* A counter holds, for every key, the number of records holding the key.
CounterExact(counter, Coll(_)) ==
    /\ \A k \in DOMAIN counter : counter[k] = Holding(Coll, k) /\ counter[k] >= 1
    /\ \A i \in 1..Len(analyzed) : Coll(analyzed[i].row) \subseteq DOMAIN counter

RECURSIVE SumCounts(_)
SumCounts(counter) ==
    IF DOMAIN counter = {} THEN 0
    ELSE LET k == CHOOSE x \in DOMAIN counter : TRUE
         IN  counter[k] + SumCounts([x \in (DOMAIN counter) \ {k} |-> counter[x]])

RECURSIVE SumTotals(_)
SumTotals(rs) ==
    IF rs = <<>> THEN 0
    ELSE Len(Head(rs).declared_missing) + Len(Head(rs).missing_inputs)
         + Len(Head(rs).csv_issues) + SumTotals(Tail(rs))

\* C9: each frequency counter holds, for every key, the number of analysed
\* records whose collection holds it (declared missing fields, missing
\* inputs, keys of the table's issues); so the counts add up to the issues of
\* all records and none exceeds the number of records.
C9_Frequencies ==
    /\ CounterExact(freq_declared, DeclaredOf)
    /\ CounterExact(freq_inputs, InputsOf)
    /\ CounterExact(freq_csv, IssueKeys)
    /\ SumCounts(freq_declared) + SumCounts(freq_inputs) + SumCounts(freq_csv)
           = SumTotals(AnalyzedRows)
    /\ \A k \in DOMAIN freq_declared : freq_declared[k] <= Len(analyzed)
    /\ \A k \in DOMAIN freq_inputs : freq_inputs[k] <= Len(analyzed)
    /\ \A k \in DOMAIN freq_csv : freq_csv[k] <= Len(analyzed)

\* Two records with the same faltan_edades issue of the table, counted under
\* its key.
C9_Witness ==
    /\ Len(analyzed) = 2
    /\ <<"f", "a", "l", "t", "a", "n", "_", "e", "d", "a", "d", "e", "s", "_", "T">> \in DOMAIN freq_csv
    /\ freq_csv[<<"f", "a", "l", "t", "a", "n", "_", "e", "d", "a", "d", "e", "s", "_", "T">>] = 2
    /\ \E k \in DOMAIN freq_inputs : freq_inputs[k] = 1

RowTotal(r) == Len(r.declared_missing) + Len(r.missing_inputs) + Len(r.csv_issues)

\* The order of the report: more issues first, equal totals by ascending code.
InReportOrder(a, b) ==
    \/ RowTotal(a) > RowTotal(b)
    \/ RowTotal(a) = RowTotal(b) /\ (a.iso2 = b.iso2 \/ StrLess(a.iso2, b.iso2))

\* C10: the country blocks appear in descending order of their total number
\* of issues, and blocks of equal totals in ascending order of the normalized
\* 2-letter code.
C10_ReportOrder ==
    /\ pc \in {"print", "done"} =>
           \A i, j \in 1..Len(rows) : i < j => InReportOrder(rows[i], rows[j])
    /\ pc = "done" =>
           \A i, j \in 1..Len(printed) : i < j => InReportOrder(printed[i], printed[j])

\* Two blocks of equal totals printed in the reverse of the order in which
\* their records were analysed.
C10_Witness ==
    /\ pc = "done"
    /\ Len(analyzed) = 2
    /\ Len(printed) = 2
    /\ RowTotal(printed[1]) = RowTotal(printed[2])
    /\ RowTotal(printed[1]) > 0
    /\ printed[1] = analyzed[2].row
    /\ printed[2] = analyzed[1].row
    /\ printed[1] # printed[2]


\* C11: a run on given inputs has one possible report: the row of every
\* analysed country (its resolved period, its verdict and its issues of the
\* table) is the row any other run on the same bundle and the same table
\* computes for it.
C11_SameReport ==
    \A i \in 1..Len(analyzed) :
        \A chk \in country_checks(analyzed[i].key, analyzed[i].entry) :
            country_row(analyzed[i].key, analyzed[i].entry, chk) = analyzed[i].row

\* C12: a run that exits with the structure error has analysed no country and
\* printed nothing, and a run whose --required-inputs names no field does not
\* get past the load of the bundle.
C12_AbortsAtLoad ==
    /\ (pc = "exit" /\ exit_msg = "estructura") =>
           total = 0 /\ analyzed = <<>> /\ rows = <<>> /\ printed = <<>>
    /\ required_inputs = <<>> =>
           /\ pc \in {"load_json", "exit"}
           /\ pc = "exit" => exit_msg = "estructura"
           /\ total = 0 /\ analyzed = <<>> /\ printed = <<>>


\* Periods of which one, "2.", does not parse as an integer.
MixedPeriods == {<<"1", "9", "9", "9">>, <<"2", "0", "1", "0">>, <<"2", ".">>, <<"2", "0", "0", "1">>}

\* The period set {"1999", "2010", "2.", "2001"} resolves to "2.".
C13_Original_DotWins ==
    (res.called /\ ResYears = MixedPeriods) => res.year = <<"2", ".">>

\* C13: for the period set {"1999", "2010", "2.", "2001"}, in which "2." does
\* not parse as an integer, the period resolved is the greatest string, which
\* is "2010": "2." is less than "2010", "." ordering before "0".
C13_StringMaxPath ==
    (res.called /\ ResYears = MixedPeriods) =>
        /\ ~AllInts(ResYears)
        /\ res.year = <<"2", "0", "1", "0">>
        /\ StrLess(<<"2", ".">>, res.year)
        /\ \A y \in ResYears : y = res.year \/ StrLess(y, res.year)

\* The check was made for a region with exactly these four periods.
C13_Witness ==
    /\ res.called
    /\ ResYears = MixedPeriods
    /\ res.ok


\* The region of the last check has usable coverage at the period: _T covers
\* every required band, or _M and _F both do.
CoveredAt(year) ==
    \/ SeriesComplete(oecd_idx, res.iso3, year, sex_T)
    \/ /\ SeriesComplete(oecd_idx, res.iso3, year, sex_M)
       /\ SeriesComplete(oecd_idx, res.iso3, year, sex_F)

\* The period of a row that is not skipped is recorded for its region,
\* whatever its age band.
C14_RowPeriod ==
    (pc = "reading" /\ row # <<>> /\ ~RowBlank(row[1])) =>
        Strip(row[1].TIME_PERIOD) \in Get(years_by_iso3, Strip(row[1].REF_AREA), {})

\* The verdict is the coverage at the greatest recorded period, and at no other.
C14_Verdict ==
    ResHasRows =>
        /\ res.year \in ResYears
        /\ \A y \in ResYears : _safe_int(y).v <= _safe_int(res.year).v
        /\ res.ok <=> CoveredAt(res.year)
        /\ (~CoveredAt(res.year) /\ \E y \in ResYears : CoveredAt(y)) =>
               ~res.ok /\ res.issues # <<>>

\* Only a row that is not skipped adds a period.
C14_RowStep ==
    years_by_iso3' # years_by_iso3 => (row' # <<>> /\ ~RowBlank(row'[1]))

\* C14: the periods of a region are those of its rows that are not skipped,
\* rows of age bands that are not required included; the check resolves the
\* greatest of them and judges coverage there only, so a region not covered
\* at its latest period is not usable even when an earlier period is covered.
C14_NoFallback == [](C14_RowPeriod /\ C14_Verdict) /\ [][C14_RowStep]_vars

\* Not usable at 2020, a period that only a row of a band that is not required
\* gave, while 2019 is covered.
C14_Witness ==
    /\ ResHasRows
    /\ ~res.ok
    /\ res.year = <<"2", "0", "2", "0">>
    /\ CoveredAt(<<"2", "0", "1", "9">>)
    /\ <<"2", "0", "2", "0">> \notin DOMAIN Get(oecd_idx.by_iso3, res.iso3, EmptyDict)

====
